---- MODULE Spec2Model ----
(***************************************************************************)
(* Model of the JSON-RPC MCP bridge of resend-mcp-http-server              *)
(* (src/http-bridge-jsonrpc.ts): the startup configuration, the POST /mcp  *)
(* route, McpJsonRpcServer.handleRequest and the handlers it dispatches    *)
(* to, and the Resend provider as an external collaborator whose calls     *)
(* settle asynchronously.                                                  *)
(***************************************************************************)
EXTENDS Integers, Sequences, FiniteSets, TLC

VARIABLES
    senderEmailAddress,     \* const senderEmailAddress (process.env.SENDER_EMAIL_ADDRESS)
    replierEmailAddresses,  \* let replierEmailAddresses (REPLY_TO_EMAIL_ADDRESSES.split(','))
    pc,                     \* per in-flight POST /mcp: where its async handler stands
    request,                \* per in-flight POST /mcp: req.body handed to handleRequest
    emailRequest,           \* per in-flight POST /mcp: argument of resend.emails.send
    settled,                \* per in-flight POST /mcp: how the provider call settled
    response,               \* per in-flight POST /mcp: completion of handleRequest
    calls,                  \* per in-flight POST /mcp: provider invocations made for it
    toolsSeen               \* every distinct tools/list result written by res.json so far

vars == <<senderEmailAddress, replierEmailAddresses, pc, request, emailRequest,
          settled, response, calls, toolsSeen>>

----------------------------------------------------------------------------
(* Bounds *)

MaxInFlight == 2

Slots == 1..MaxInFlight

----------------------------------------------------------------------------
(* JavaScript values.  Every value is a record tagged by its typeof-like   *)
(* kind, so that values of different kinds can be compared.                *)

Undefined == [t |-> "undefined"]
Null == [t |-> "null"]
Str(s) == [t |-> "string", s |-> s]
Num(n) == [t |-> "number", n |-> n]
Arr(items) == [t |-> "array", items |-> items]
\* An object: its own keys in insertion order and the value of each.
Obj(keys, props) == [t |-> "object", keys |-> keys, props |-> props]

EmptyProps == [k \in {} |-> Undefined]

\* v === undefined || v === null
IsNullish(v) == v.t \in {"undefined", "null"}

\* ToBoolean(v) is false
Falsy(v) ==
    \/ IsNullish(v)
    \/ v.t = "string" /\ v.s = ""
    \/ v.t = "number" /\ v.n = 0

Truthy(v) == ~Falsy(v)

\* a ?? b
Coalesce(a, b) == IF IsNullish(a) THEN b ELSE a

\* Reading property k of a non-nullish value (a destructuring target):
\* own property of an object, undefined on the primitives and arrays used here.
Prop(v, k) ==
    IF v.t = "object" /\ k \in DOMAIN v.props THEN v.props[k] ELSE Undefined

RECURSIVE JoinStrings(_, _)
JoinStrings(seq, sep) ==
    IF seq = <<>> THEN ""
    ELSE IF Len(seq) = 1 THEN seq[1]
    ELSE seq[1] \o sep \o JoinStrings(Tail(seq), sep)

\* JSON.stringify(v); undefined (not a string) is returned for undefined.
RECURSIVE JSONstringify(_)
JSONstringify(v) ==
    CASE v.t = "undefined" -> Undefined
      [] v.t = "null" -> Str("null")
      [] v.t = "string" -> Str("\"" \o v.s \o "\"")
      [] v.t = "number" -> Str(ToString(v.n))
      [] v.t = "array" ->
            Str("[" \o JoinStrings(
                    [i \in 1..Len(v.items) |->
                        IF v.items[i].t = "undefined" THEN "null"
                        ELSE JSONstringify(v.items[i]).s], ",") \o "]")
      [] v.t = "object" ->
            LET present == SelectSeq(v.keys, LAMBDA k : v.props[k].t # "undefined")
            IN  Str("{" \o JoinStrings(
                    [i \in 1..Len(present) |->
                        "\"" \o present[i] \o "\":" \o JSONstringify(v.props[present[i]]).s],
                    ",") \o "}")

\* `${v}` for the values a template literal is applied to here
TemplateString(v) ==
    CASE v.t = "undefined" -> "undefined"
      [] v.t = "null" -> "null"
      [] v.t = "string" -> v.s
      [] v.t = "number" -> ToString(v.n)
      [] v.t = "array" -> JoinStrings(
            [i \in 1..Len(v.items) |->
                IF IsNullish(v.items[i]) THEN "" ELSE v.items[i].s], ",")
      [] v.t = "object" -> "[object Object]"

\* new Error(message) / a TypeError raised by the engine
Error(message) == [name |-> "Error", message |-> message]
TypeError(message) == [name |-> "TypeError", message |-> message]

----------------------------------------------------------------------------
(* Startup configuration *)

\* process.env.SENDER_EMAIL_ADDRESS: unset, set to the empty string, or an address
SenderSettings == {Undefined, Str(""), Str("noreply@example.com")}

\* replierEmailAddresses: [] when REPLY_TO_EMAIL_ADDRESSES is unset or empty,
\* otherwise the comma-separated addresses in order
ReplierSettings == {Arr(<<>>), Arr(<<Str("help@example.com"), Str("ops@example.com")>>)}

----------------------------------------------------------------------------
(* McpJsonRpcServer *)

handleInitialize(params) ==
    [protocolVersion |-> "2024-11-05",
     capabilities |-> [tools |-> EmptyProps],
     serverInfo |-> [name |-> "resend-email-service", version |-> "1.0.0"]]

EmailArray(description) ==
    [type |-> "array", items |-> [type |-> "string", format |-> "email"],
     description |-> description]

\* The from field is advertised whatever the configuration is.
FromSchemaFieldAlways ==
    [from |-> [type |-> "string", format |-> "email",
               description |-> "Sender email address. You MUST ask the user for this parameter."]]

\* ...(senderEmailAddress ? {} : { from: ... })
FromSchemaField ==
    IF Truthy(senderEmailAddress) THEN EmptyProps
    ELSE [from |-> [type |-> "string", format |-> "email",
                    description |-> "Sender email address. You MUST ask the user for this parameter."]]

\* ...(replierEmailAddresses.length === 0 ? { replyTo: ... } : {})
ReplyToSchemaField ==
    IF Len(replierEmailAddresses.items) = 0
    THEN [replyTo |-> EmailArray("Optional email addresses for reply-to. You MUST ask the user for this parameter.")]
    ELSE EmptyProps

handleListTools ==
    [tools |-> <<
        [name |-> "send-email",
         description |-> "Send an email using Resend",
         inputSchema |->
            [type |-> "object",
             properties |->
                [to |-> [type |-> "string", format |-> "email",
                         description |-> "Recipient email address"],
                 subject |-> [type |-> "string", description |-> "Email subject line"],
                 text |-> [type |-> "string", description |-> "Plain text email content"],
                 html |-> [type |-> "string",
                           description |-> "HTML email content. When provided, the plain text argument MUST be provided as well."],
                 cc |-> EmailArray("Optional array of CC email addresses. You MUST ask the user for this parameter."),
                 bcc |-> EmailArray("Optional array of BCC email addresses. You MUST ask the user for this parameter."),
                 scheduledAt |-> [type |-> "string",
                                  description |-> "Optional parameter to schedule the email. Uses natural language like 'tomorrow at 10am'."]]
                @@ FromSchemaField @@ ReplyToSchemaField,
             required |-> <<"to", "subject", "text">>]],
        [name |-> "list-audiences",
         description |-> "List all audiences from Resend",
         inputSchema |-> [type |-> "object", properties |-> EmptyProps]]
    >>]

\* The default sender takes precedence over the argument.
fromEmailAddressDefaultFirst(args) == Coalesce(senderEmailAddress, Prop(args, "from"))

\* const fromEmailAddress = from ?? senderEmailAddress
fromEmailAddress(args) == Coalesce(Prop(args, "from"), senderEmailAddress)

\* const replyToEmailAddresses = replyTo ?? replierEmailAddresses
replyToEmailAddresses(args) == Coalesce(Prop(args, "replyTo"), replierEmailAddresses)

\* if (x) emailRequest.k = x
OptionalField(args, k) ==
    IF Truthy(Prop(args, k)) THEN (k :> Prop(args, k)) ELSE EmptyProps

\* const emailRequest = { to, subject, text, from, replyTo } plus the optional fields
BuildEmailRequest(args) ==
    [to |-> Prop(args, "to"),
     subject |-> Prop(args, "subject"),
     text |-> Prop(args, "text"),
     from |-> fromEmailAddress(args),
     replyTo |-> replyToEmailAddresses(args)]
    @@ OptionalField(args, "html") @@ OptionalField(args, "scheduledAt")
    @@ OptionalField(args, "cc") @@ OptionalField(args, "bcc")

\* The sender is refused only when it is not a string.
SenderMissingUnlessString(address) == address.t # "string"

\* if (!fromEmailAddress)
SenderMissing(address) == Falsy(address)

Throw(error) == [kind |-> "throw", error |-> error]
Return(value) == [kind |-> "return", value |-> value]

\* The message of the TypeError the engine raises when a nullish value is
\* destructured (V8's wording).
DestructureMessage(prop, target, v) ==
    "Cannot destructure property '" \o prop \o "' of '" \o target \o "' as it is "
        \o TemplateString(v) \o "."

\* handleCallTool up to its first await: either it throws, or it has invoked
\* resend.emails.send(emailRequest) or resend.audiences.list() and is suspended.
handleCallTool(params) ==
    IF IsNullish(params)
    THEN Throw(TypeError(DestructureMessage("name", "params", params)))
    ELSE
      LET name == Prop(params, "name")
          args == Prop(params, "arguments")
      IN  IF name = Str("send-email")
          THEN IF IsNullish(args)
               THEN Throw(TypeError(DestructureMessage("from", "args", args)))
               ELSE IF SenderMissing(fromEmailAddress(args))
                    THEN Throw(Error("from argument must be provided."))
                    ELSE [kind |-> "send", emailRequest |-> BuildEmailRequest(args)]
          ELSE IF name = Str("list-audiences")
               THEN [kind |-> "list"]
               ELSE Throw(Error("Unknown tool: " \o TemplateString(name)))

ToolText(text) == [content |-> <<[type |-> "text", text |-> text]>>]

\* The structured error of the provider's response is not looked at.
sendEmailResumeErrorIgnored(settlement) ==
    IF settlement.kind = "rejected" THEN Throw(settlement.reason)
    ELSE Return(ToolText("Email sent successfully! "
            \o TemplateString(JSONstringify(Prop(settlement.value, "data")))))

\* handleCallTool after `await resend.emails.send(emailRequest)` has settled
sendEmailResume(settlement) ==
    IF settlement.kind = "rejected" THEN Throw(settlement.reason)
    ELSE LET resp == settlement.value
         IN  IF Truthy(Prop(resp, "error"))
             THEN Throw(Error("Email failed to send: "
                        \o TemplateString(JSONstringify(Prop(resp, "error")))))
             ELSE Return(ToolText("Email sent successfully! "
                        \o TemplateString(JSONstringify(Prop(resp, "data")))))

\* handleCallTool after `await resend.audiences.list()` has settled
listAudiencesResume(settlement) ==
    IF settlement.kind = "rejected" THEN Throw(settlement.reason)
    ELSE LET resp == settlement.value
         IN  IF Truthy(Prop(resp, "error"))
             THEN Throw(Error("Failed to list audiences: "
                        \o TemplateString(JSONstringify(Prop(resp, "error")))))
             ELSE Return(ToolText("Audiences found: "
                        \o TemplateString(JSONstringify(Prop(resp, "data")))))

\* The default branch answers with the internal-error code.
MethodNotFoundAsInternal(req) ==
    [jsonrpc |-> "2.0",
     error |-> [code |-> -32603, message |-> "Method not found"],
     id |-> req.id]

\* default: return { jsonrpc, error: { code: -32601, ... }, id: request.id }
MethodNotFound(req) ==
    [jsonrpc |-> "2.0",
     error |-> [code |-> -32601, message |-> "Method not found"],
     id |-> req.id]

\* return { jsonrpc: '2.0', result, id: request.id }
ResultResponse(req, result) ==
    [jsonrpc |-> "2.0", result |-> result, id |-> req.id]

\* The catch clause answers with a null id, as the route's own 500 reply does.
CatchResponseNullId(req, error) ==
    [jsonrpc |-> "2.0",
     error |-> [code |-> -32603,
                message |-> IF error.message = "" THEN "Internal error" ELSE error.message],
     id |-> Null]

\* catch (error) { return { jsonrpc, error: { code: -32603, message: error.message || 'Internal error' }, id } }
CatchResponse(req, error) ==
    [jsonrpc |-> "2.0",
     error |-> [code |-> -32603,
                message |-> IF error.message = "" THEN "Internal error" ELSE error.message],
     id |-> req.id]

\* No catch clause: an error thrown by a handler leaves handleRequest.
SettleUncaught(req, outcome) ==
    IF outcome.kind = "throw"
    THEN outcome
    ELSE Return(ResultResponse(req, outcome.value))

\* What handleRequest does with the outcome of a handler: a value becomes the
\* result, a thrown error goes through the catch clause.
Settle(req, outcome) ==
    IF outcome.kind = "throw"
    THEN Return(CatchResponse(req, outcome.error))
    ELSE Return(ResultResponse(req, outcome.value))

\* handleRequest up to its first suspension on the provider
handleRequest(req) ==
    CASE req.method = Str("initialize") -> Settle(req, Return(handleInitialize(req.params)))
      [] req.method = Str("tools/list") -> Settle(req, Return(handleListTools))
      [] req.method = Str("tools/call") ->
            LET started == handleCallTool(req.params)
            IN  IF started.kind = "throw" THEN Settle(req, started) ELSE started
      [] OTHER -> Return(MethodNotFound(req))

----------------------------------------------------------------------------
(* Inputs: the request bodies POST /mcp may carry *)

ArgFields == <<"to", "subject", "text", "from", "replyTo", "html", "scheduledAt", "cc", "bcc">>

\* The arguments object that carries exactly the fields f gives a value to
MakeArgs(f) ==
    LET present == SelectSeq(ArgFields, LAMBDA k : f[k] # Undefined)
    IN  Obj(present, [k \in {present[i] : i \in 1..Len(present)} |-> f[k]])

\* Every combination of the required and the defaulted fields ...
CoreArgChoices ==
    [to : {Undefined, Str("a@b.com")},
     subject : {Undefined, Str("hi")},
     text : {Undefined, Str("hello")},
     from : {Undefined, Null, Str(""), Str("me@example.com")},
     replyTo : {Undefined, Str("reply@example.com"),
                Arr(<<Str("reply@example.com")>>), Num(42)},
     html : {Undefined},
     scheduledAt : {Undefined},
     cc : {Undefined},
     bcc : {Undefined}]

\* ... and every combination of the pass-through fields on a complete email
OptionalArgChoices ==
    [to : {Str("a@b.com")},
     subject : {Str("hi")},
     text : {Str("hello")},
     from : {Undefined, Null, Str(""), Str("me@example.com")},
     replyTo : {Undefined, Arr(<<Str("reply@example.com")>>)},
     html : {Undefined, Str(""), Str("<p>hello</p>")},
     scheduledAt : {Undefined, Str("tomorrow at 10am")},
     cc : {Undefined, Arr(<<Str("cc@example.com")>>)},
     bcc : {Undefined, Arr(<<Str("bcc@example.com")>>)}]

ArgChoices == CoreArgChoices \cup OptionalArgChoices

\* A smaller family used when several requests are in flight at once
FewArgChoices ==
    [to : {Str("a@b.com")},
     subject : {Str("hi")},
     text : {Str("hello")},
     from : {Undefined, Str("me@example.com")},
     replyTo : {Undefined},
     html : {Undefined},
     scheduledAt : {Undefined},
     cc : {Undefined},
     bcc : {Undefined}]

Ids == {Null, Num(1), Str("req-1")}

ToolParams(name, arguments) ==
    Obj(<<"name", "arguments">>, [name |-> name, arguments |-> arguments])

Request(method, params, id) ==
    [jsonrpc |-> "2.0", method |-> method, params |-> params, id |-> id]

\* tools/call params: absent or malformed, send-email with every kind of
\* arguments, and the other tool names
CallParams(argChoices) ==
    {Undefined, Null, Num(7), Obj(<<>>, EmptyProps)}
    \cup {ToolParams(Str("send-email"), a) :
            a \in {Undefined, Null, Num(42)} \cup {MakeArgs(f) : f \in argChoices}}
    \cup {ToolParams(n, a) :
            n \in {Str("list-audiences"), Str("unknown-tool"), Num(3)},
            a \in {Undefined, Obj(<<>>, EmptyProps)}}

RequestsOver(ids, argChoices) ==
    {Request(m, p, id) :
        m \in {Str("initialize"), Str("tools/list"), Str("ping"),
               Str("notifications/initialized"), Undefined},
        p \in {Undefined, Obj(<<>>, EmptyProps)},
        id \in ids}
    \cup {Request(Str("tools/call"), p, id) : p \in CallParams(argChoices), id \in ids}

Requests == RequestsOver(Ids, ArgChoices)

ConcurrentRequests ==
    {Request(m, Undefined, id) :
        m \in {Str("initialize"), Str("tools/list"), Str("ping")}, id \in {Null}}
    \cup {Request(Str("tools/call"), ToolParams(Str("send-email"), MakeArgs(f)), Num(1)) :
            f \in FewArgChoices}
    \cup {Request(Str("tools/call"), ToolParams(n, Undefined), Str("req-1")) :
            n \in {Str("list-audiences"), Str("unknown-tool")}}

----------------------------------------------------------------------------
(* The provider: how resend.emails.send and resend.audiences.list settle *)

Fulfilled(data, error) ==
    [kind |-> "fulfilled", value |-> Obj(<<"data", "error">>, [data |-> data, error |-> error])]
Rejected(reason) == [kind |-> "rejected", reason |-> reason]

ProviderError ==
    Obj(<<"name", "message">>, [name |-> Str("validation_error"), message |-> Str("bad")])

ProviderFailures ==
    {Fulfilled(Null, ProviderError), Rejected(Error("fetch failed")), Rejected(Error(""))}

SendSettlements ==
    {Fulfilled(Obj(<<"id">>, [id |-> Str("49a3999c")]), Null)} \cup ProviderFailures

ListSettlements ==
    {Fulfilled(Obj(<<"object", "data">>, [object |-> Str("list"), data |-> Arr(<<>>)]), Null)}
    \cup ProviderFailures

----------------------------------------------------------------------------
(* State machine *)

None == [t |-> "none"]

NoCalls == [send |-> 0, list |-> 0]

Init ==
    /\ senderEmailAddress \in SenderSettings
    /\ replierEmailAddresses \in ReplierSettings
    /\ pc = [s \in Slots |-> "idle"]
    /\ request = [s \in Slots |-> None]
    /\ emailRequest = [s \in Slots |-> None]
    /\ settled = [s \in Slots |-> None]
    /\ response = [s \in Slots |-> None]
    /\ calls = [s \in Slots |-> NoCalls]
    /\ toolsSeen = {}

\* How handleRequest completes: its promise resolves with a response, or rejects
Complete(s, outcome) ==
    IF outcome.kind = "return"
    THEN /\ pc' = [pc EXCEPT ![s] = "returned"]
         /\ response' = [response EXCEPT ![s] = outcome.value]
    ELSE /\ pc' = [pc EXCEPT ![s] = "threw"]
         /\ response' = [response EXCEPT ![s] = None]

\* app.post('/mcp'): mcpServer.handleRequest(req.body) runs until it completes
\* or suspends on the provider
PostMcp(s, req) ==
    /\ pc[s] = "idle"
    /\ request' = [request EXCEPT ![s] = req]
    /\ LET out == handleRequest(req)
       IN  CASE out.kind = "send" ->
                    /\ pc' = [pc EXCEPT ![s] = "awaitSend"]
                    /\ emailRequest' = [emailRequest EXCEPT ![s] = out.emailRequest]
                    /\ calls' = [calls EXCEPT ![s].send = @ + 1]
                    /\ UNCHANGED response
             [] out.kind = "list" ->
                    /\ pc' = [pc EXCEPT ![s] = "awaitList"]
                    /\ calls' = [calls EXCEPT ![s].list = @ + 1]
                    /\ UNCHANGED <<emailRequest, response>>
             [] OTHER ->
                    /\ Complete(s, out)
                    /\ UNCHANGED <<emailRequest, calls>>
    /\ UNCHANGED <<senderEmailAddress, replierEmailAddresses, settled, toolsSeen>>

\* A failed send is attempted once more before the failure is reported.
SendSettlesRetrying(s, settlement) ==
    /\ pc[s] = "awaitSend"
    /\ IF settlement \in ProviderFailures /\ calls[s].send < 2
       THEN /\ calls' = [calls EXCEPT ![s].send = @ + 1]
            /\ UNCHANGED <<pc, response, settled>>
       ELSE /\ settled' = [settled EXCEPT ![s] = settlement]
            /\ Complete(s, Settle(request[s], sendEmailResume(settlement)))
            /\ UNCHANGED calls
    /\ UNCHANGED <<senderEmailAddress, replierEmailAddresses, request, emailRequest,
                   toolsSeen>>

\* resend.emails.send settles and handleCallTool, then handleRequest, resume
SendSettles(s, settlement) ==
    /\ pc[s] = "awaitSend"
    /\ settled' = [settled EXCEPT ![s] = settlement]
    /\ Complete(s, Settle(request[s], sendEmailResume(settlement)))
    /\ UNCHANGED <<senderEmailAddress, replierEmailAddresses, request, emailRequest,
                   calls, toolsSeen>>

\* resend.audiences.list settles and handleCallTool, then handleRequest, resume
ListSettles(s, settlement) ==
    /\ pc[s] = "awaitList"
    /\ settled' = [settled EXCEPT ![s] = settlement]
    /\ Complete(s, Settle(request[s], listAudiencesResume(settlement)))
    /\ UNCHANGED <<senderEmailAddress, replierEmailAddresses, request, emailRequest,
                   calls, toolsSeen>>

\* app.post('/mcp') after `await handleRequest`: res.json(response), or the
\* 500 reply of its catch clause; the exchange is over
SendReply(s) ==
    /\ pc[s] \in {"returned", "threw"}
    /\ toolsSeen' =
         IF pc[s] = "returned" /\ request[s].method = Str("tools/list")
            /\ "result" \in DOMAIN response[s]
         THEN toolsSeen \cup {response[s].result}
         ELSE toolsSeen
    /\ pc' = [pc EXCEPT ![s] = "idle"]
    /\ request' = [request EXCEPT ![s] = None]
    /\ emailRequest' = [emailRequest EXCEPT ![s] = None]
    /\ settled' = [settled EXCEPT ![s] = None]
    /\ response' = [response EXCEPT ![s] = None]
    /\ calls' = [calls EXCEPT ![s] = NoCalls]
    /\ UNCHANGED <<senderEmailAddress, replierEmailAddresses>>

\* One request at a time, over every request body
Next ==
    \/ \E req \in Requests : PostMcp(1, req)
    \/ \E x \in SendSettlements : SendSettles(1, x)
    \/ \E x \in ListSettlements : ListSettles(1, x)
    \/ SendReply(1)

Spec == Init /\ [][Next]_vars

\* Up to MaxInFlight requests handled concurrently
NextConcurrent ==
    \/ \E s \in Slots, req \in ConcurrentRequests : PostMcp(s, req)
    \/ \E s \in Slots, x \in SendSettlements : SendSettles(s, x)
    \/ \E s \in Slots, x \in ListSettlements : ListSettles(s, x)
    \/ \E s \in Slots : SendReply(s)

SpecConcurrent == Init /\ [][NextConcurrent]_vars

----------------------------------------------------------------------------
(* Vocabulary of the properties *)

InFlight(s) == request[s] # None
Returned(s) == pc[s] = "returned"
HasResult(r) == "result" \in DOMAIN r
HasError(r) == "error" \in DOMAIN r
IsMethod(s, m) == InFlight(s) /\ request[s].method = Str(m)
KnownMethods == {Str("initialize"), Str("tools/list"), Str("tools/call")}
ProviderCalls(s) == calls[s].send + calls[s].list

\* The name and arguments a tools/call request carries (undefined when its
\* params carry none)
ToolName(s) == Prop(request[s].params, "name")
ToolArgs(s) == Prop(request[s].params, "arguments")
IsSendEmailCall(s) == IsMethod(s, "tools/call") /\ ToolName(s) = Str("send-email")

\* A failed response of handleRequest with the given code
FailedWith(s, code) ==
    /\ Returned(s)
    /\ HasError(response[s])
    /\ ~HasResult(response[s])
    /\ response[s].error.code = code

NoDefaultSender == Falsy(senderEmailAddress)
NoDefaultReplyTo == Len(replierEmailAddresses.items) = 0

----------------------------------------------------------------------------
\* C1: handleRequest never throws outward, and every response it returns has
\* jsonrpc "2.0" and exactly one of result / error.
C1_WellFormedResponse ==
    \A s \in Slots :
        /\ pc[s] # "threw"
        /\ Returned(s) =>
            /\ response[s] # None
            /\ response[s].jsonrpc = "2.0"
            /\ HasResult(response[s]) # HasError(response[s])
            /\ HasResult(response[s]) => response[s].result # Undefined

\* A tools/call without params has been answered with an error response.
C1_Witness ==
    /\ IsMethod(1, "tools/call")
    /\ request[1].params = Undefined
    /\ Returned(1)
    /\ HasError(response[1])

\* C2: on every dispatch path the response's id is the request's id.
C2_IdEchoed ==
    \A s \in Slots : Returned(s) => response[s].id = request[s].id

\* A failed tools/call with a null id and a provider failure has been answered.
C2_Witness ==
    /\ IsMethod(1, "tools/call")
    /\ request[1].id = Null
    /\ settled[1] \in ProviderFailures
    /\ Returned(1)
    /\ response[1].id = Null

\* C3: a request with an unrecognised method is answered with error -32601
\* and no result, and the provider is not invoked for it.
C3_MethodNotFound ==
    \A s \in Slots :
        (InFlight(s) /\ request[s].method \notin KnownMethods) =>
            /\ FailedWith(s, -32601)
            /\ calls[s] = NoCalls
            /\ emailRequest[s] = None

\* An unknown method has been answered.
C3_Witness ==
    /\ IsMethod(1, "ping")
    /\ Returned(1)
    /\ response[1].error.code = -32601

----------------------------------------------------------------------------
\* C4: a send-email call whose arguments lack to, subject or text fails with
\* error -32603 and never invokes the provider's send operation.
\* (The claim as stated; handleCallTool does not check the required fields.)
C4_RequiredFieldsChecked ==
    \A s \in Slots :
        (/\ IsSendEmailCall(s)
         /\ \E f \in {"to", "subject", "text"} : Prop(ToolArgs(s), f) = Undefined) =>
            /\ calls[s].send = 0
            /\ Returned(s) => FailedWith(s, -32603)

\* C5: a send-email call without a from argument, when no default sender is
\* configured, fails with error -32603 and no provider call is made at any
\* point of its handling.
C5_SenderRequired ==
    \A s \in Slots :
        (/\ IsSendEmailCall(s)
         /\ IsNullish(Prop(ToolArgs(s), "from"))
         /\ NoDefaultSender) =>
            /\ FailedWith(s, -32603)
            /\ calls[s] = NoCalls
            /\ emailRequest[s] = None

\* A complete email without from was refused while the sender setting is the
\* empty string.
C5_Witness ==
    /\ IsSendEmailCall(1)
    /\ senderEmailAddress = Str("")
    /\ ToolArgs(1).t = "object"
    /\ Prop(ToolArgs(1), "from") = Undefined
    /\ Prop(ToolArgs(1), "to") = Str("a@b.com")
    /\ FailedWith(1, -32603)
    /\ response[1].error.message = "from argument must be provided."

\* C6: in every send-email call that reaches the provider, from is the
\* per-call from argument when one is supplied and the default sender
\* otherwise, and replyTo is the per-call replyTo argument when one is
\* supplied and the default reply-to list otherwise.
C6_ArgumentOverridesDefault ==
    \A s \in Slots :
        emailRequest[s] # None =>
            /\ emailRequest[s].from =
                 IF IsNullish(Prop(ToolArgs(s), "from"))
                 THEN senderEmailAddress ELSE Prop(ToolArgs(s), "from")
            /\ emailRequest[s].replyTo =
                 IF IsNullish(Prop(ToolArgs(s), "replyTo"))
                 THEN replierEmailAddresses ELSE Prop(ToolArgs(s), "replyTo")

\* With a default sender configured, one call that supplies both from and
\* replyTo reached the provider with them.
C6_Witness ==
    /\ senderEmailAddress = Str("noreply@example.com")
    /\ NoDefaultReplyTo
    /\ pc[1] = "awaitSend"
    /\ Prop(ToolArgs(1), "from") = Str("me@example.com")
    /\ emailRequest[1].from = Str("me@example.com")
    /\ emailRequest[1].replyTo = Arr(<<Str("reply@example.com")>>)

\* The error raised while handling the tools/call request in s, if any:
\* by handleCallTool before the provider is reached, by the provider call, or
\* after a structured provider error.
RaisedBeforeProvider(s) ==
    \/ IsNullish(request[s].params)
    \/ ToolName(s) \notin {Str("send-email"), Str("list-audiences")}
    \/ ToolName(s) = Str("send-email") /\ IsNullish(ToolArgs(s))
    \/ ToolName(s) = Str("send-email")
       /\ Falsy(Coalesce(Prop(ToolArgs(s), "from"), senderEmailAddress))

ProviderFailed(s) ==
    /\ settled[s] # None
    /\ \/ settled[s].kind = "rejected"
       \/ settled[s].kind = "fulfilled" /\ Truthy(Prop(settled[s].value, "error"))

RaisedMessage(s) ==
    CASE settled[s] # None /\ settled[s].kind = "rejected" -> settled[s].reason.message
      [] settled[s] # None /\ settled[s].kind = "fulfilled" ->
            (IF ToolName(s) = Str("send-email")
             THEN "Email failed to send: " ELSE "Failed to list audiences: ")
            \o JSONstringify(Prop(settled[s].value, "error")).s
      [] IsNullish(request[s].params) -> DestructureMessage("name", "params", request[s].params)
      [] ToolName(s) \notin {Str("send-email"), Str("list-audiences")} ->
            "Unknown tool: " \o TemplateString(ToolName(s))
      [] IsNullish(ToolArgs(s)) -> DestructureMessage("from", "args", ToolArgs(s))
      [] OTHER -> "from argument must be provided."

ToolCallFailed(s) ==
    /\ IsMethod(s, "tools/call")
    /\ Returned(s)
    /\ RaisedBeforeProvider(s) \/ ProviderFailed(s)

\* C7 as stated: every failure raised while handling tools/call becomes an
\* error response with code -32603, no result, and the raised error's message.
C7_RaisedMessageKept ==
    \A s \in Slots :
        ToolCallFailed(s) =>
            /\ FailedWith(s, -32603)
            /\ response[s].error.message = RaisedMessage(s)

\* C7 amended: ... and the raised error's message, or "Internal error" when
\* the raised error's message is empty; a structured provider error appears
\* serialised in the message.
C7_FailureConverted ==
    \A s \in Slots :
        /\ ToolCallFailed(s) =>
            /\ FailedWith(s, -32603)
            /\ response[s].error.message =
                 IF RaisedMessage(s) = "" THEN "Internal error" ELSE RaisedMessage(s)
        /\ (/\ IsSendEmailCall(s) /\ Returned(s) /\ settled[s] # None
            /\ settled[s] = Fulfilled(Null, ProviderError)) =>
                response[s].error.message =
                    "Email failed to send: {\"name\":\"validation_error\",\"message\":\"bad\"}"
        /\ (IsMethod(s, "tools/call") /\ Returned(s) /\ ToolName(s) = Str("unknown-tool")) =>
                response[s].error.message = "Unknown tool: unknown-tool"

\* A send whose provider returned a structured error has been answered.
C7_Witness ==
    /\ IsSendEmailCall(1)
    /\ settled[1] = Fulfilled(Null, ProviderError)
    /\ FailedWith(1, -32603)

\* C8: tools/list always returns the same two tools, send-email then
\* list-audiences; send-email's schema has from iff no default sender is
\* configured and replyTo iff no default reply-to list is configured;
\* list-audiences has no input fields.
C8_ToolsListStable ==
    /\ Cardinality(toolsSeen) <= 1
    /\ \A s \in Slots :
        (IsMethod(s, "tools/list") /\ Returned(s)) =>
            /\ HasResult(response[s])
            /\ toolsSeen \subseteq {response[s].result}
            /\ LET tools == response[s].result.tools
               IN  /\ Len(tools) = 2
                   /\ tools[1].name = "send-email"
                   /\ tools[2].name = "list-audiences"
                   /\ "from" \in DOMAIN tools[1].inputSchema.properties <=> NoDefaultSender
                   /\ "replyTo" \in DOMAIN tools[1].inputSchema.properties <=> NoDefaultReplyTo
                   /\ {"to", "subject", "text"} \subseteq DOMAIN tools[1].inputSchema.properties
                   /\ DOMAIN tools[2].inputSchema.properties = {}

\* tools/list is answered again after an earlier tools/list was served, with
\* a default sender and no default reply-to list.
C8_Witness ==
    /\ toolsSeen # {}
    /\ IsMethod(1, "tools/list")
    /\ Returned(1)
    /\ ~NoDefaultSender
    /\ NoDefaultReplyTo

\* C9: a send-email call whose resolved reply-to value is neither a string
\* nor a sequence fails, and the provider's send operation is not invoked.
\* (The claim as stated; handleCallTool does not check the reply-to value.)
C9_ReplyToChecked ==
    \A s \in Slots :
        (/\ IsSendEmailCall(s)
         /\ ~IsNullish(ToolArgs(s))
         /\ Coalesce(Prop(ToolArgs(s), "replyTo"), replierEmailAddresses).t
                \notin {"string", "array"}) =>
            /\ calls[s].send = 0
            /\ Returned(s) => HasError(response[s])

\* C10: each tools/call request causes at most one provider invocation, the
\* other requests cause none, and the response to a request is determined by
\* the request, the configuration and its own provider outcome.
C10_IndependentRequests ==
    /\ \A s \in Slots :
        /\ ProviderCalls(s) <= 1
        /\ (InFlight(s) /\ ~IsMethod(s, "tools/call")) => ProviderCalls(s) = 0
        /\ ~InFlight(s) => ProviderCalls(s) = 0
    /\ \A s, t \in Slots :
        (/\ Returned(s) /\ Returned(t)
         /\ request[s] = request[t]
         /\ settled[s] = settled[t]) => response[s] = response[t]

\* Two copies of one send-email request are in flight; both were answered
\* after the same provider failure, each having invoked the provider once.
C10_Witness ==
    /\ IsSendEmailCall(1)
    /\ request[1] = request[2]
    /\ Returned(1) /\ Returned(2)
    /\ settled[1] \in ProviderFailures
    /\ settled[1] = settled[2]
    /\ calls[1].send = 1 /\ calls[2].send = 1

====
